---- MODULE Spec2Model ----
(***************************************************************************)
(* Model of tensorflow_datasets/core/features/image_feature.py: the Image  *)
(* feature connector (construction-time validation, encode_example,        *)
(* __getstate__, the JSON content round trip) and the <video>/GIF preview  *)
(* of a sequence of frames.                                                *)
(*                                                                         *)
(* Python values are represented as follows.                               *)
(*   None (a format, a dtype argument)  the string "None"                  *)
(*   a shape tuple                      a sequence of integers, an unknown *)
(*                                      dimension (None) being NoneDim     *)
(*   shape=None or shape=()             the empty sequence (both falsy)    *)
(*   tf dtypes / numpy dtypes / names   "tf.uint8" / "np.uint8" / "uint8"  *)
(*   self.__dict__                      a record with the fields _shape,   *)
(*                                      _dtype, _encoding_format,          *)
(*                                      _use_colormap, _runner             *)
(*   a raised exception                 the field err of a call's outcome  *)
(***************************************************************************)
EXTENDS Integers, Sequences, FiniteSets, TLC

VARIABLES adapter, lastOp, result, err, calls, runnersCreated

vars == <<adapter, lastOp, result, err, calls, runnersCreated>>

(***************************************************************************)
(* Bounds of the model.                                                    *)
(***************************************************************************)
\* Known heights and widths of a configured shape range over 1..MaxDim; the
\* arrays handed to encode_example are one larger at most.
MaxDim == 1
\* Channel counts of a configured shape range over 0..MaxChannels (and None).
MaxChannels == 5
\* Frame sequences handed to repr_html_batch have 0..MaxFrames frames.
MaxFrames == 2
\* Encoded images read from paths, bytes and streams: "blob1".."blob<MaxBlobs>".
MaxBlobs == 2

(***************************************************************************)
(* Values.                                                                 *)
(***************************************************************************)
None == "None"
NoneDim == -1
NoRunner == 0
NoErr == "no error"
NoAdapter == [absent |-> TRUE]
NoResult == [raised |-> TRUE]

\* Messages of the ValueErrors raised by the module, by the check raising them.
ErrEncoding == "ValueError: encoding_format must be one of"
ErrChannels == "ValueError: Acceptable channels for"
ErrDtype == "ValueError: Acceptable dtype for"
ErrColormapFormat == "ValueError: Colormap is only available for PNG images"
ErrColormapShape == "ValueError: Colormap is only available for gray-scale images"
ErrImageDtype == "ValueError: Image dtype should be"
ErrShapeMatch == "ValueError: shape mismatch"
ErrFileNotFound == "FileNotFoundError"
ErrEncoderFailure == "ffmpeg invocation failed"

\* Truthiness of a Python string-or-None, and of a tuple-or-None.
TruthyStr(x) == x \notin {None, ""}
TruthySeq(s) == s /= <<>>

Last(s) == s[Len(s)]

(***************************************************************************)
(* Module-level tables.                                                    *)
(***************************************************************************)
_ENCODE_FN_keys == {"png", "jpeg"}

_ENCODE_FN(format) == IF format = "png" THEN "tf.image.encode_png" ELSE "tf.image.encode_jpeg"

\* dict.get: the empty collection stands for the None of a missing key; both
\* are falsy.
_ACCEPTABLE_CHANNELS(encoding_format) ==
    IF encoding_format = "png" THEN {0, 1, 2, 3, 4}
    ELSE IF encoding_format = "jpeg" THEN {0, 1, 3}
    ELSE {}

_ACCEPTABLE_DTYPES(encoding_format) ==
    IF encoding_format = "png" THEN {"tf.uint8", "tf.uint16"}
    ELSE IF encoding_format = "jpeg" THEN {"tf.uint8"}
    ELSE {}

(***************************************************************************)
(* dtype conversions of TensorFlow.                                        *)
(***************************************************************************)
TfDtypes == {"tf.uint8", "tf.uint16", "tf.float32"}
NpDtypes == {"np.uint8", "np.uint16", "np.float32"}

\* tf.as_dtype / tf.dtypes.as_dtype: a DType is returned as is, a name is
\* looked up.
as_dtype(d) ==
    IF d \in TfDtypes THEN d
    ELSE IF d = "uint8" THEN "tf.uint8"
    ELSE IF d = "uint16" THEN "tf.uint16"
    ELSE "tf.float32"

\* DType.name
dtype_name(d) ==
    IF d = "tf.uint8" THEN "uint8"
    ELSE IF d = "tf.uint16" THEN "uint16"
    ELSE "float32"

\* DType.as_numpy_dtype
as_numpy_dtype(d) ==
    IF d = "tf.uint8" THEN "np.uint8"
    ELSE IF d = "tf.uint16" THEN "np.uint16"
    ELSE "np.float32"

(***************************************************************************)
(* The validators run by the constructor. Each returns [err, val].         *)
(***************************************************************************)
_get_and_validate_encoding(encoding_format) ==
    IF TruthyStr(encoding_format) /\ encoding_format \notin _ENCODE_FN_keys
    THEN [err |-> ErrEncoding, val |-> None]
    ELSE [err |-> NoErr, val |-> encoding_format]

_get_and_validate_dtype(dtype, encoding_format) ==
    LET dt == as_dtype(dtype)
        acceptable_dtypes == _ACCEPTABLE_DTYPES(encoding_format)
    IN  IF acceptable_dtypes /= {} /\ dt \notin acceptable_dtypes
        THEN [err |-> ErrDtype, val |-> None]
        ELSE [err |-> NoErr, val |-> dt]

\* The channel count is not compared with the acceptable ones.
_get_and_validate_shape_unchecked(shape, encoding_format) ==
    [err |-> NoErr, val |-> shape]

_get_and_validate_shape(shape, encoding_format) ==
    LET channels == Last(shape)
        acceptable_channels == _ACCEPTABLE_CHANNELS(encoding_format)
    IN  IF acceptable_channels /= {} /\ channels \notin acceptable_channels
        THEN [err |-> ErrChannels, val |-> <<>>]
        ELSE [err |-> NoErr, val |-> shape]

_get_and_validate_colormap(use_colormap, shape, encoding_format) ==
    IF use_colormap /\ TruthyStr(encoding_format) /\ encoding_format /= "png"
    THEN [err |-> ErrColormapFormat, val |-> FALSE]
    ELSE IF use_colormap /\ Last(shape) /= 1
    THEN [err |-> ErrColormapShape, val |-> FALSE]
    ELSE [err |-> NoErr, val |-> use_colormap]

(***************************************************************************)
(* Image.__init__. Returns [err, obj]: obj is the new instance, or         *)
(* NoAdapter when a validator raised.                                      *)
(***************************************************************************)
Raise(e) == [err |-> e, obj |-> NoAdapter]

\* The constructor with the dtype validated before the shape.
Image__init__dtype_first(shape, dtype, encoding_format, use_colormap) ==
    LET shape0 == IF TruthySeq(shape) THEN shape ELSE <<NoneDim, NoneDim, 3>>
        dtype0 == IF dtype /= None THEN dtype ELSE "tf.uint8"
        e == _get_and_validate_encoding(encoding_format)
        d == _get_and_validate_dtype(dtype0, e.val)
        s == _get_and_validate_shape(shape0, e.val)
        c == _get_and_validate_colormap(use_colormap, s.val, e.val)
    IN  IF e.err /= NoErr THEN Raise(e.err)
        ELSE IF d.err /= NoErr THEN Raise(d.err)
        ELSE IF s.err /= NoErr THEN Raise(s.err)
        ELSE IF c.err /= NoErr THEN Raise(c.err)
        ELSE [err |-> NoErr,
              obj |-> [_encoding_format |-> e.val, _shape |-> s.val,
                       _dtype |-> d.val, _use_colormap |-> c.val,
                       _runner |-> NoRunner]]

Image__init__(shape, dtype, encoding_format, use_colormap) ==
    LET shape0 == IF TruthySeq(shape) THEN shape ELSE <<NoneDim, NoneDim, 3>>
        dtype0 == IF dtype /= None THEN dtype ELSE "tf.uint8"
        e == _get_and_validate_encoding(encoding_format)
        s == _get_and_validate_shape(shape0, e.val)
        d == _get_and_validate_dtype(dtype0, e.val)
        c == _get_and_validate_colormap(use_colormap, s.val, e.val)
    IN  IF e.err /= NoErr THEN Raise(e.err)
        ELSE IF s.err /= NoErr THEN Raise(s.err)
        ELSE IF d.err /= NoErr THEN Raise(d.err)
        ELSE IF c.err /= NoErr THEN Raise(c.err)
        ELSE [err |-> NoErr,
              obj |-> [_encoding_format |-> e.val, _shape |-> s.val,
                       _dtype |-> d.val, _use_colormap |-> c.val,
                       _runner |-> NoRunner]]

(***************************************************************************)
(* Inputs of the constructor.                                              *)
(***************************************************************************)
Dims == {NoneDim} \cup (1..MaxDim)
Channels == {NoneDim} \cup (0..MaxChannels)
ShapeArgs == {<<>>} \cup {<<h, w, c>> : h \in Dims, w \in Dims, c \in Channels}
DtypeArgs == {None} \cup TfDtypes
FormatArgs == {None, "png", "jpeg", "bmp"}

\* Square arrays, with no channel axis or with 1 or 3 channels.
ArrayShapes ==
    {<<h, h>> : h \in 1..(MaxDim + 1)}
        \cup {<<h, h, c>> : h \in 1..(MaxDim + 1), c \in {1, 3}}
Arrays == [kind : {"ndarray"}, dtype : NpDtypes, shape : ArrayShapes]
Blobs == {<<"blob", i>> : i \in 1..MaxBlobs}
NonArrays == [kind : {"path", "bytes", "fobj"}, content : Blobs]

(***************************************************************************)
(* Collaborators from tensorflow_datasets.core.utils.                      *)
(***************************************************************************)
\* utils.TFGraphRunner(): a new runner object, identified by its number.
TFGraphRunner == runnersCreated + 1

\* runner.run(fn, np_image): the output of the codec fn on the image.
run(fn, np_image) == [codec |-> fn, image |-> np_image]

\* utils.assert_shape_match(shape1, shape2): the ranks are equal and every
\* known dimension of shape2 equals that of shape1.
assert_shape_match(shape1, shape2) ==
    IF Len(shape1) /= Len(shape2) THEN ErrShapeMatch
    ELSE IF \E i \in 1..Len(shape2) : shape2[i] /= NoneDim /\ shape2[i] /= shape1[i]
    THEN ErrShapeMatch
    ELSE NoErr

\* What a call of utils.ffmpeg_run can do: return, find no binary, or fail
\* otherwise.
FfmpegOutcomes == {"ok", ErrFileNotFound, ErrEncoderFailure}

\* The environments: the answer to the version probe and to the encoding run.
\* An environment whose probe fails answers the encoding run the same way.
FfmpegEnvs ==
    {env \in [probe : FfmpegOutcomes, encode : FfmpegOutcomes] :
        env.probe = "ok" \/ env.encode = env.probe}

\* utils.ffmpeg_run(args) in an environment env that answers the version
\* probe with env.probe and the encoding run with env.encode.
ffmpeg_run(args, env) == IF args = "-version" THEN env.probe ELSE env.encode

Call(fn, arg, out) == [fn |-> fn, arg |-> arg, out |-> out]

(***************************************************************************)
(* Image._encode_image. Returns [self, ret, err, calls]: the instance      *)
(* after the call, the value returned, the exception raised and the calls  *)
(* made to the codecs.                                                     *)
(***************************************************************************)
\* The dtype of the array is not compared with the configured one.
_encode_image_no_dtype_check(self, np_image) ==
    LET self1 == IF self._runner = NoRunner
                 THEN [self EXCEPT !._runner = TFGraphRunner] ELSE self
        fn == _ENCODE_FN(IF TruthyStr(self._encoding_format)
                         THEN self._encoding_format ELSE "png")
    IN  IF assert_shape_match(np_image.shape, self._shape) /= NoErr
        THEN [self |-> self1, ret |-> NoResult,
              err |-> assert_shape_match(np_image.shape, self._shape), calls |-> <<>>]
        ELSE [self |-> self1, ret |-> run(fn, np_image), err |-> NoErr,
              calls |-> <<Call("run", fn, "ok")>>]

\* The runner is created only once the array has been validated.
_encode_image_runner_after_checks(self, np_image) ==
    LET self1 == IF self._runner = NoRunner
                 THEN [self EXCEPT !._runner = TFGraphRunner] ELSE self
        fn == _ENCODE_FN(IF TruthyStr(self._encoding_format)
                         THEN self._encoding_format ELSE "png")
    IN  IF np_image.dtype /= as_numpy_dtype(self._dtype)
        THEN [self |-> self, ret |-> NoResult, err |-> ErrImageDtype, calls |-> <<>>]
        ELSE IF assert_shape_match(np_image.shape, self._shape) /= NoErr
        THEN [self |-> self, ret |-> NoResult,
              err |-> assert_shape_match(np_image.shape, self._shape), calls |-> <<>>]
        ELSE [self |-> self1, ret |-> run(fn, np_image), err |-> NoErr,
              calls |-> <<Call("run", fn, "ok")>>]

_encode_image(self, np_image) ==
    LET self1 == IF self._runner = NoRunner
                 THEN [self EXCEPT !._runner = TFGraphRunner] ELSE self
        fn == _ENCODE_FN(IF TruthyStr(self._encoding_format)
                         THEN self._encoding_format ELSE "png")
    IN  IF np_image.dtype /= as_numpy_dtype(self._dtype)
        THEN [self |-> self1, ret |-> NoResult, err |-> ErrImageDtype, calls |-> <<>>]
        ELSE IF assert_shape_match(np_image.shape, self._shape) /= NoErr
        THEN [self |-> self1, ret |-> NoResult,
              err |-> assert_shape_match(np_image.shape, self._shape), calls |-> <<>>]
        ELSE [self |-> self1, ret |-> run(fn, np_image), err |-> NoErr,
              calls |-> <<Call("run", fn, "ok")>>]

(***************************************************************************)
(* Image.encode_example. Returns [self, ret, err, calls].                  *)
(***************************************************************************)
\* The bytes of a path, a bytes value or a stream are re-encoded with the
\* configured codec when an encoding format is set.
encode_example_reencode(self, image_or_path_or_fobj) ==
    IF image_or_path_or_fobj.kind = "ndarray"
    THEN _encode_image(self, image_or_path_or_fobj)
    ELSE IF TruthyStr(self._encoding_format)
    THEN [self |-> self,
          ret |-> run(_ENCODE_FN(self._encoding_format), image_or_path_or_fobj.content),
          err |-> NoErr,
          calls |-> <<Call("run", _ENCODE_FN(self._encoding_format), "ok")>>]
    ELSE [self |-> self, ret |-> [bytes |-> image_or_path_or_fobj.content],
          err |-> NoErr, calls |-> <<>>]

encode_example(self, image_or_path_or_fobj) ==
    IF image_or_path_or_fobj.kind = "ndarray"
    THEN _encode_image(self, image_or_path_or_fobj)
    ELSE IF image_or_path_or_fobj.kind = "path"
    THEN \* image_f.read() of the file at the path
         [self |-> self, ret |-> [bytes |-> image_or_path_or_fobj.content],
          err |-> NoErr, calls |-> <<>>]
    ELSE IF image_or_path_or_fobj.kind = "bytes"
    THEN [self |-> self, ret |-> [bytes |-> image_or_path_or_fobj.content],
          err |-> NoErr, calls |-> <<>>]
    ELSE \* image_or_path_or_fobj.read()
         [self |-> self, ret |-> [bytes |-> image_or_path_or_fobj.content],
          err |-> NoErr, calls |-> <<>>]

(***************************************************************************)
(* Image.__getstate__. Returns [self, ret]: the instance after the call    *)
(* and the state handed to pickle.                                         *)
(***************************************************************************)
\* Without the .copy(): the state is the instance's own __dict__.
Image__getstate__no_copy(self) ==
    [self |-> [self EXCEPT !._runner = NoRunner],
     ret |-> [self EXCEPT !._runner = NoRunner]]

Image__getstate__(self) ==
    [self |-> self, ret |-> [self EXCEPT !._runner = NoRunner]]

(***************************************************************************)
(* Image.to_json_content / Image.from_json_content.                        *)
(***************************************************************************)
\* The format written is the one images are encoded with.
to_json_content_effective_format(self) ==
    [shape |-> self._shape,
     dtype |-> dtype_name(self._dtype),
     encoding_format |-> IF TruthyStr(self._encoding_format)
                         THEN self._encoding_format ELSE "png",
     use_colormap |-> self._use_colormap]

to_json_content(self) ==
    [shape |-> self._shape,
     dtype |-> dtype_name(self._dtype),
     encoding_format |-> self._encoding_format,
     use_colormap |-> self._use_colormap]

from_json_content(value) ==
    Image__init__(value.shape, as_dtype(value.dtype), value.encoding_format,
                  value.use_colormap)

(***************************************************************************)
(* The preview of a sequence of frames. ex is the number of frames, env    *)
(* the answers of the ffmpeg binary. Each returns [ret, err, calls].       *)
(***************************************************************************)
Html(tag, alt, frames) == [html |-> tag, alt |-> alt, frames |-> frames]

repr_html(self) == [ret |-> Html("img", "Img", 1), err |-> NoErr, calls |-> <<>>]

_get_repr_html_gif(images) ==
    [ret |-> Html("img", "Gif", images), err |-> NoErr, calls |-> <<>>]

_get_repr_html_ffmpeg(images, env) ==
    LET tmp == Call("tempfile.TemporaryDirectory", "video_dir", "removed")
        out == ffmpeg_run("-framerate", env)
        enc == Call("ffmpeg_run", "-framerate", out)
    IN  IF out /= "ok"
        THEN [ret |-> NoResult, err |-> out, calls |-> <<tmp, enc>>]
        ELSE [ret |-> Html("video", "", images), err |-> NoErr, calls |-> <<tmp, enc>>]

\* Any failure of the probe falls back on the GIF.
make_video_repr_html_catch_all(ex, env) ==
    LET out == ffmpeg_run("-version", env)
        probe == Call("ffmpeg_run", "-version", out)
        gif == _get_repr_html_gif(ex)
        video == _get_repr_html_ffmpeg(ex, env)
    IN  IF ex = 0
        THEN [ret |-> Html("Video with 0 frames.", "", 0), err |-> NoErr, calls |-> <<>>]
        ELSE IF out /= "ok"
        THEN [gif EXCEPT !.calls = <<probe>> \o gif.calls]
        ELSE [video EXCEPT !.calls = <<probe>> \o video.calls]

\* The binary is probed before the frames are counted.
make_video_repr_html_probe_first(ex, env) ==
    LET out == ffmpeg_run("-version", env)
        probe == Call("ffmpeg_run", "-version", out)
        gif == _get_repr_html_gif(ex)
        video == _get_repr_html_ffmpeg(ex, env)
    IN  IF out = ErrFileNotFound
        THEN [gif EXCEPT !.calls = <<probe>> \o gif.calls]
        ELSE IF out /= "ok"
        THEN [ret |-> NoResult, err |-> out, calls |-> <<probe>>]
        ELSE IF ex = 0
        THEN [ret |-> Html("Video with 0 frames.", "", 0), err |-> NoErr,
              calls |-> <<probe>>]
        ELSE [video EXCEPT !.calls = <<probe>> \o video.calls]

make_video_repr_html(ex, env) ==
    LET out == ffmpeg_run("-version", env)
        probe == Call("ffmpeg_run", "-version", out)
        gif == _get_repr_html_gif(ex)
        video == _get_repr_html_ffmpeg(ex, env)
    IN  IF ex = 0
        THEN [ret |-> Html("Video with 0 frames.", "", 0), err |-> NoErr, calls |-> <<>>]
        ELSE IF out = ErrFileNotFound
        THEN [gif EXCEPT !.calls = <<probe>> \o gif.calls]
        ELSE IF out /= "ok"
        THEN [ret |-> NoResult, err |-> out, calls |-> <<probe>>]
        ELSE [video EXCEPT !.calls = <<probe>> \o video.calls]

repr_html_batch(self, ex, env) ==
    IF ex = 1 THEN repr_html(self) ELSE make_video_repr_html(ex, env)

(***************************************************************************)
(* The state machine: one Image instance and the operations on it.         *)
(*   adapter         the instance (NoAdapter before construction)          *)
(*   lastOp          the last operation and its arguments                  *)
(*   result, err     what it returned, or the exception it raised          *)
(*   calls           the codec, ffmpeg and temporary-directory calls made  *)
(*   runnersCreated  the number of TFGraphRunner objects created so far    *)
(***************************************************************************)
Init ==
    /\ adapter = NoAdapter
    /\ lastOp = [op |-> "start"]
    /\ result = NoResult
    /\ err = NoErr
    /\ calls = <<>>
    /\ runnersCreated = 0

\* features.Image(shape=..., dtype=..., encoding_format=..., use_colormap=...)
\* A constructor that raises ends the run: the error is fatal to its caller.
Construct ==
    /\ lastOp.op = "start"
    /\ \E shape \in ShapeArgs, dtype \in DtypeArgs, encoding_format \in FormatArgs,
          use_colormap \in BOOLEAN :
         LET r == Image__init__(shape, dtype, encoding_format, use_colormap)
         IN  /\ lastOp' = [op |-> "Image.__init__", shape |-> shape, dtype |-> dtype,
                           encoding_format |-> encoding_format,
                           use_colormap |-> use_colormap]
             /\ err' = r.err
             /\ result' = r.obj
             /\ adapter' = r.obj
    /\ calls' = <<>>
    /\ UNCHANGED runnersCreated

\* adapter.encode_example(x)
Encode ==
    /\ adapter /= NoAdapter
    /\ \E x \in Arrays \cup NonArrays :
         LET r == encode_example(adapter, x)
         IN  /\ lastOp' = [op |-> "encode_example", arg |-> x]
             /\ adapter' = r.self
             /\ result' = r.ret
             /\ err' = r.err
             /\ calls' = r.calls
             /\ runnersCreated' = IF r.self._runner /= adapter._runner
                                  THEN runnersCreated + 1 ELSE runnersCreated

\* pickle: adapter.__getstate__()
GetState ==
    /\ adapter /= NoAdapter
    /\ LET r == Image__getstate__(adapter)
       IN  /\ lastOp' = [op |-> "__getstate__"]
           /\ adapter' = r.self
           /\ result' = r.ret
    /\ err' = NoErr
    /\ calls' = <<>>
    /\ UNCHANGED runnersCreated

\* adapter.to_json_content()
ToJson ==
    /\ adapter /= NoAdapter
    /\ lastOp' = [op |-> "to_json_content"]
    /\ result' = to_json_content(adapter)
    /\ err' = NoErr
    /\ calls' = <<>>
    /\ UNCHANGED <<adapter, runnersCreated>>

\* Image.from_json_content(value), value being the content just written
FromJson ==
    /\ lastOp.op = "to_json_content"
    /\ LET r == from_json_content(result)
       IN  /\ result' = r.obj
           /\ err' = r.err
    /\ lastOp' = [op |-> "from_json_content"]
    /\ calls' = <<>>
    /\ UNCHANGED <<adapter, runnersCreated>>

\* adapter.repr_html_batch(ex) on ex.shape[0] frames
ReprHtmlBatch ==
    /\ adapter /= NoAdapter
    /\ \E ex \in 0..MaxFrames, env \in FfmpegEnvs :
         LET r == repr_html_batch(adapter, ex, env)
         IN  /\ lastOp' = [op |-> "repr_html_batch", frames |-> ex, env |-> env]
             /\ result' = r.ret
             /\ err' = r.err
             /\ calls' = r.calls
    /\ UNCHANGED <<adapter, runnersCreated>>

Next ==
    \/ Construct
    \/ Encode
    \/ GetState
    \/ ToJson
    \/ FromJson
    \/ ReprHtmlBatch

Spec == Init /\ [][Next]_vars

(***************************************************************************)
(* Properties.                                                             *)
(***************************************************************************)
\* The arguments of the last constructor call, after its defaults.
ConfiguredChannels == IF lastOp.shape = <<>> THEN 3 ELSE Last(lastOp.shape)
ConfiguredDtype == IF lastOp.dtype = None THEN "tf.uint8" ELSE lastOp.dtype

ViolatesEncoding == lastOp.encoding_format \notin {None, "png", "jpeg"}
ViolatesDtype ==
    \/ lastOp.encoding_format = "jpeg" /\ ConfiguredDtype /= "tf.uint8"
    \/ lastOp.encoding_format = "png" /\ ConfiguredDtype \notin {"tf.uint8", "tf.uint16"}
ViolatesChannels ==
    \/ lastOp.encoding_format = "png" /\ ConfiguredChannels \notin 0..4
    \/ lastOp.encoding_format = "jpeg" /\ ConfiguredChannels \notin {0, 1, 3}
ViolatesColormap ==
    /\ lastOp.use_colormap
    /\ ~(lastOp.encoding_format \in {None, "png"} /\ ConfiguredChannels = 1)

ConstructionErrors ==
    {ErrEncoding, ErrChannels, ErrDtype, ErrColormapFormat, ErrColormapShape}

\* The check of the constructor that raised a given error.
CheckOf(e) ==
    IF e = ErrEncoding THEN "encoding"
    ELSE IF e = ErrDtype THEN "dtype"
    ELSE IF e = ErrChannels THEN "shape"
    ELSE IF e \in {ErrColormapFormat, ErrColormapShape} THEN "colormap"
    ELSE "none"

C8_OrderEncodingDtypeShapeColormap ==
    lastOp.op = "Image.__init__" =>
        CheckOf(err) = IF ViolatesEncoding THEN "encoding"
                       ELSE IF ViolatesDtype THEN "dtype"
                       ELSE IF ViolatesChannels THEN "shape"
                       ELSE IF ViolatesColormap THEN "colormap"
                       ELSE "none"

\* C8 amended: the error raised by the constructor is that of the first
\* violated check in the order encoding format, shape/channels, dtype,
\* colormap.
C8_OrderEncodingShapeDtypeColormap ==
    lastOp.op = "Image.__init__" =>
        CheckOf(err) = IF ViolatesEncoding THEN "encoding"
                       ELSE IF ViolatesChannels THEN "shape"
                       ELSE IF ViolatesDtype THEN "dtype"
                       ELSE IF ViolatesColormap THEN "colormap"
                       ELSE "none"

\* format 'jpeg' with dtype uint16 and 2 channels raises the channels error.
C8_Witness ==
    /\ lastOp.op = "Image.__init__"
    /\ lastOp.encoding_format = "jpeg"
    /\ lastOp.dtype = "tf.uint16"
    /\ lastOp.shape /= <<>>
    /\ Last(lastOp.shape) = 2
    /\ err = ErrChannels

\* C9 as stated: every constructed Image has dtype uint8 or uint16, whatever
\* its encoding format, the unset one included.
C9_DtypeInClosedSet ==
    adapter /= NoAdapter => adapter._dtype \in {"tf.uint8", "tf.uint16"}

\* Whether an array matches the configuration of the instance.
ArrayDtypeMatches(x) ==
    \/ x.dtype = "np.uint8" /\ adapter._dtype = "tf.uint8"
    \/ x.dtype = "np.uint16" /\ adapter._dtype = "tf.uint16"
    \/ x.dtype = "np.float32" /\ adapter._dtype = "tf.float32"
ArrayShapeMatches(x) ==
    /\ Len(x.shape) = Len(adapter._shape)
    /\ \A i \in 1..Len(x.shape) : adapter._shape[i] \in {NoneDim, x.shape[i]}
SelectedCodec ==
    IF adapter._encoding_format = "jpeg" THEN "tf.image.encode_jpeg"
    ELSE "tf.image.encode_png"

\* C2: encode_example on a pixel array returns the output of the codec of
\* (encoding_format or 'png') if and only if the array's dtype is the
\* configured one and its shape matches the configured one, None dimensions
\* matching anything; another dtype raises the dtype error, the right dtype
\* with another rank or another fixed dimension raises the shape error, and
\* in both cases no codec runs.
C2_ArrayEncode ==
    (lastOp.op = "encode_example" /\ lastOp.arg.kind = "ndarray") =>
        /\ (ArrayDtypeMatches(lastOp.arg) /\ ArrayShapeMatches(lastOp.arg)) =>
              /\ err = NoErr
              /\ result = [codec |-> SelectedCodec, image |-> lastOp.arg]
              /\ calls = <<Call("run", SelectedCodec, "ok")>>
        /\ ~ArrayDtypeMatches(lastOp.arg) =>
              err = ErrImageDtype /\ result = NoResult /\ calls = <<>>
        /\ (ArrayDtypeMatches(lastOp.arg) /\ ~ArrayShapeMatches(lastOp.arg)) =>
              err = ErrShapeMatch /\ result = NoResult /\ calls = <<>>

\* An 8-bit array of 3 channels under the default configuration, whose
\* height and width are unknown and whose format is unset, is encoded as PNG.
C2_Witness ==
    /\ lastOp.op = "encode_example"
    /\ lastOp.arg.kind = "ndarray"
    /\ lastOp.arg.dtype = "np.uint8"
    /\ Len(lastOp.arg.shape) = 3
    /\ adapter._shape = <<NoneDim, NoneDim, 3>>
    /\ adapter._dtype = "tf.uint8"
    /\ adapter._encoding_format = None
    /\ err = NoErr
    /\ result.codec = "tf.image.encode_png"

\* C3: encode_example on a path, a bytes value or a stream returns exactly
\* the bytes of that source, whatever the configuration of the instance,
\* raises nothing and runs no codec.
C3_NonArrayPassThrough ==
    (lastOp.op = "encode_example" /\ lastOp.arg.kind /= "ndarray") =>
        /\ err = NoErr
        /\ result = [bytes |-> lastOp.arg.content]
        /\ calls = <<>>

\* Raw bytes pass through an instance configured for JPEG.
C3_Witness ==
    /\ lastOp.op = "encode_example"
    /\ lastOp.arg.kind = "bytes"
    /\ adapter._encoding_format = "jpeg"
    /\ result = [bytes |-> lastOp.arg.content]

\* C4: from_json_content(to_json_content(c)) succeeds and yields an Image
\* with the shape, dtype, encoding format and use_colormap of c.
C4_JsonRoundTrip ==
    lastOp.op = "from_json_content" =>
        /\ err = NoErr
        /\ result /= NoAdapter
        /\ result._shape = adapter._shape
        /\ result._dtype = adapter._dtype
        /\ result._encoding_format = adapter._encoding_format
        /\ result._use_colormap = adapter._use_colormap

\* The round trip of a configuration with unknown dimensions and no format.
C4_Witness ==
    /\ lastOp.op = "from_json_content"
    /\ adapter._encoding_format = None
    /\ adapter._shape = <<NoneDim, NoneDim, 1>>
    /\ adapter._dtype = "tf.uint16"
    /\ adapter._use_colormap
    /\ result._shape = adapter._shape

\* C5: the state returned by __getstate__ has no runner and carries the four
\* configuration fields of the instance, and the call leaves the instance,
\* with its runner if it has one, as it was.
C5_SnapshotOmitsRunner ==
    [][lastOp'.op = "__getstate__" =>
          /\ adapter' = adapter
          /\ result'._runner = NoRunner
          /\ result'._shape = adapter._shape
          /\ result'._dtype = adapter._dtype
          /\ result'._encoding_format = adapter._encoding_format
          /\ result'._use_colormap = adapter._use_colormap]_vars

\* A snapshot taken of an instance that has a runner.
C5_Witness ==
    /\ lastOp.op = "__getstate__"
    /\ adapter._runner /= NoRunner
    /\ result._runner = NoRunner

\* The calls of the ffmpeg binary made by the last operation, in order.
RECURSIVE FfmpegCalls(_)
FfmpegCalls(s) ==
    IF s = <<>> THEN <<>>
    ELSE IF Head(s).fn = "ffmpeg_run" THEN <<Head(s)>> \o FfmpegCalls(Tail(s))
    ELSE FfmpegCalls(Tail(s))

BatchOfSeveral == lastOp.op = "repr_html_batch" /\ lastOp.frames >= 2

NoRetry ==
    \A i, j \in 1..Len(calls) :
        (calls[i].fn = "ffmpeg_run" /\ calls[i] = calls[j]) => i = j

\* C6 as stated: on two or more frames, every ffmpeg invocation that finds
\* no binary is recovered by the GIF <img>, every invocation failing
\* otherwise propagates, the result is the <video> when none fails, and no
\* invocation is retried.
C6_EveryNotFoundRecovered ==
    BatchOfSeveral =>
        LET inv == FfmpegCalls(calls)
        IN  /\ (\E i \in 1..Len(inv) : inv[i].out = ErrFileNotFound) =>
                  err = NoErr /\ result = Html("img", "Gif", lastOp.frames)
            /\ (\E i \in 1..Len(inv) : inv[i].out = ErrEncoderFailure) =>
                  err = ErrEncoderFailure /\ result = NoResult
            /\ (\A i \in 1..Len(inv) : inv[i].out = "ok") =>
                  err = NoErr /\ result = Html("video", "", lastOp.frames)
            /\ NoRetry

\* C6 amended: on two or more frames, a version probe that finds no binary
\* is recovered by the GIF <img>; a probe failing otherwise, and an encoding
\* run failing in any way (no binary found included), propagate; the result
\* is the <video> when neither fails; the probe runs once, the encoding run
\* at most once.
C6_ProbeNotFoundRecovered ==
    BatchOfSeveral =>
        LET inv == FfmpegCalls(calls)
            probe == Call("ffmpeg_run", "-version", lastOp.env.probe)
            encode == Call("ffmpeg_run", "-framerate", lastOp.env.encode)
        IN  /\ lastOp.env.probe = ErrFileNotFound =>
                  /\ err = NoErr /\ result = Html("img", "Gif", lastOp.frames)
                  /\ inv = <<probe>>
            /\ lastOp.env.probe = ErrEncoderFailure =>
                  /\ err = ErrEncoderFailure /\ result = NoResult
                  /\ inv = <<probe>>
            /\ (lastOp.env.probe = "ok" /\ lastOp.env.encode /= "ok") =>
                  /\ err = lastOp.env.encode /\ result = NoResult
                  /\ inv = <<probe, encode>>
            /\ (lastOp.env.probe = "ok" /\ lastOp.env.encode = "ok") =>
                  /\ err = NoErr /\ result = Html("video", "", lastOp.frames)
                  /\ inv = <<probe, encode>>

\* The binary disappears after the probe: the encoding run's
\* FileNotFoundError reaches the caller.
C6_Witness ==
    /\ BatchOfSeveral
    /\ lastOp.env.probe = "ok"
    /\ lastOp.env.encode = ErrFileNotFound
    /\ err = ErrFileNotFound

\* C7: repr_html_batch on zero frames returns 'Video with 0 frames.' and
\* makes no ffmpeg call and no temporary directory, whether or not ffmpeg
\* is installed.
C7_NoFramesNoProcess ==
    (lastOp.op = "repr_html_batch" /\ lastOp.frames = 0) =>
        /\ err = NoErr
        /\ result.html = "Video with 0 frames."
        /\ calls = <<>>

\* Zero frames with ffmpeg installed.
C7_Witness ==
    /\ lastOp.op = "repr_html_batch"
    /\ lastOp.frames = 0
    /\ lastOp.env.probe = "ok"
    /\ result.html = "Video with 0 frames."

\* C10 as stated: the runner is absent after construction, is attached by
\* the first encode_example call whatever its input and outcome, and is the
\* same runner from then on.
C10_AttachedAtFirstEncode ==
    [][adapter' /= NoAdapter =>
          IF adapter = NoAdapter THEN adapter'._runner = NoRunner
          ELSE IF adapter._runner /= NoRunner THEN adapter'._runner = adapter._runner
          ELSE adapter'._runner /= NoRunner <=> lastOp'.op = "encode_example"]_vars

\* C10 amended: the runner is absent after construction, is attached by the
\* first encode_example call on a pixel array, whether that call returns or
\* raises, and by no call on a path, a bytes value or a stream, and is the
\* same runner from then on.
C10_AttachedAtFirstArrayEncode ==
    [][adapter' /= NoAdapter =>
          IF adapter = NoAdapter THEN adapter'._runner = NoRunner
          ELSE IF adapter._runner /= NoRunner THEN adapter'._runner = adapter._runner
          ELSE adapter'._runner /= NoRunner <=>
                  (lastOp'.op = "encode_example" /\ lastOp'.arg.kind = "ndarray")]_vars

\* A first array encode that raised the dtype error and attached the runner.
C10_Witness ==
    /\ lastOp.op = "encode_example"
    /\ lastOp.arg.kind = "ndarray"
    /\ err = ErrImageDtype
    /\ adapter._runner /= NoRunner
====
